---------------------------- MODULE Spec2Model ----------------------------
(* A model of install.py, the one-command installer of the AI Infrastructure  *)
(* Projects repository: main() checks for a repository marker, asks for       *)
(* confirmation when it is absent, creates a fixed directory tree, writes the *)
(* literal files of FILES, the placeholder notes, and two further documents.  *)
(*                                                                            *)
(* Text is a sequence of Unicode code points; the content of a file on disk   *)
(* is a sequence of bytes. A path is the sequence of its components.          *)
EXTENDS Integers, Sequences, FiniteSets, TLC

(***************************************************************************)
(* Bounds of the model                                                     *)
(***************************************************************************)
\* how many entries of PreexistingCandidates the working directory may hold
\* before the first run
MaxPreexisting == 1
\* how many times main() is run in succession
MaxRuns == 2

(***************************************************************************)
(* The static tables of the program                                        *)
(***************************************************************************)
(* directories: the list of create_directory_structure, in list order. A path is
   the sequence of its components, as pathlib splits it. *)
directories ==
    << <<"terraform", "aws">>,
       <<"terraform", "gcp">>,
       <<"kubernetes", "rbac">>,
       <<"kubernetes", "network-policies">>,
       <<"monitoring", "prometheus">>,
       <<"monitoring", "loki">>,
       <<"monitoring", "gpu-exporter">>,
       <<"monitoring", "deployment">>,
       <<"inference", "app">>,
       <<"training", "src">>,
       <<"training", "docker">>,
       <<"training", "scripts">>,
       <<"istio">>,
       <<"argocd", "applications">>,
       <<"argocd", "projects">>,
       <<".github", "workflows">>,
       <<"scripts">>,
       <<"tests">>,
       <<"docs">> >>

(* The literal payloads are opaque to the program; each is represented by its first
   line (code points, newline included). *)
(* "# AI Infrastructure Projects\n" *)
README_md ==
    <<35, 32, 65, 73, 32, 73, 110, 102, 114, 97, 115, 116, 114, 117, 99, 116, 117, 114, 101,
       32, 80, 114, 111, 106, 101, 99, 116, 115, 10>>

(* "# Terraform\n" *)
gitignore ==
    <<35, 32, 84, 101, 114, 114, 97, 102, 111, 114, 109, 10>>

(* "MIT License\n" *)
LICENSE ==
    <<77, 73, 84, 32, 76, 105, 99, 101, 110, 115, 101, 10>>

(* "# Architecture Overview\n" *)
ARCHITECTURE_md ==
    <<35, 32, 65, 114, 99, 104, 105, 116, 101, 99, 116, 117, 114, 101, 32, 79, 118, 101, 114,
       118, 105, 101, 119, 10>>

(* "# Troubleshooting Guide\n" *)
TROUBLESHOOTING_md ==
    <<35, 32, 84, 114, 111, 117, 98, 108, 101, 115, 104, 111, 111, 116, 105, 110, 103, 32, 71,
       117, 105, 100, 101, 10>>

(* FILES: path -> content, in table (dict insertion) order. *)
FILES ==
    << [path |-> <<"README.md">>, content |-> README_md],
       [path |-> <<".gitignore">>, content |-> gitignore],
       [path |-> <<"LICENSE">>, content |-> LICENSE],
       [path |-> <<"docs", "ARCHITECTURE.md">>, content |-> ARCHITECTURE_md],
       [path |-> <<"docs", "TROUBLESHOOTING.md">>, content |-> TROUBLESHOOTING_md] >>

(* "Project A - AWS Terraform Complete Implementation" *)
Desc01 ==
    <<80, 114, 111, 106, 101, 99, 116, 32, 65, 32, 45, 32, 65, 87, 83, 32, 84, 101, 114, 114,
       97, 102, 111, 114, 109, 32, 67, 111, 109, 112, 108, 101, 116, 101, 32, 73, 109, 112,
       108, 101, 109, 101, 110, 116, 97, 116, 105, 111, 110>>

(* "Project A - Terraform Variables" *)
Desc02 ==
    <<80, 114, 111, 106, 101, 99, 116, 32, 65, 32, 45, 32, 84, 101, 114, 114, 97, 102, 111,
       114, 109, 32, 86, 97, 114, 105, 97, 98, 108, 101, 115>>

(* "Project A - GCP Terraform Complete Implementation" *)
Desc03 ==
    <<80, 114, 111, 106, 101, 99, 116, 32, 65, 32, 45, 32, 71, 67, 80, 32, 84, 101, 114, 114,
       97, 102, 111, 114, 109, 32, 67, 111, 109, 112, 108, 101, 116, 101, 32, 73, 109, 112,
       108, 101, 109, 101, 110, 116, 97, 116, 105, 111, 110>>

(* "Project A - GCP Variables and Config" *)
Desc04 ==
    <<80, 114, 111, 106, 101, 99, 116, 32, 65, 32, 45, 32, 71, 67, 80, 32, 86, 97, 114, 105,
       97, 98, 108, 101, 115, 32, 97, 110, 100, 32, 67, 111, 110, 102, 105, 103>>

(* "Project B - Complete Distributed Training Implementation" *)
Desc05 ==
    <<80, 114, 111, 106, 101, 99, 116, 32, 66, 32, 45, 32, 67, 111, 109, 112, 108, 101, 116,
       101, 32, 68, 105, 115, 116, 114, 105, 98, 117, 116, 101, 100, 32, 84, 114, 97, 105, 110,
       105, 110, 103, 32, 73, 109, 112, 108, 101, 109, 101, 110, 116, 97, 116, 105, 111, 110>>

(* "Project B - Docker and Kubernetes Configuration (Dockerfile section)" *)
Desc06 ==
    <<80, 114, 111, 106, 101, 99, 116, 32, 66, 32, 45, 32, 68, 111, 99, 107, 101, 114, 32, 97,
       110, 100, 32, 75, 117, 98, 101, 114, 110, 101, 116, 101, 115, 32, 67, 111, 110, 102,
       105, 103, 117, 114, 97, 116, 105, 111, 110, 32, 40, 68, 111, 99, 107, 101, 114, 102,
       105, 108, 101, 32, 115, 101, 99, 116, 105, 111, 110, 41>>

(* "Project B - Docker and Kubernetes Configuration (training-job.yaml section)" *)
Desc07 ==
    <<80, 114, 111, 106, 101, 99, 116, 32, 66, 32, 45, 32, 68, 111, 99, 107, 101, 114, 32, 97,
       110, 100, 32, 75, 117, 98, 101, 114, 110, 101, 116, 101, 115, 32, 67, 111, 110, 102,
       105, 103, 117, 114, 97, 116, 105, 111, 110, 32, 40, 116, 114, 97, 105, 110, 105, 110,
       103, 45, 106, 111, 98, 46, 121, 97, 109, 108, 32, 115, 101, 99, 116, 105, 111, 110, 41>>

(* "Project C - Complete Monitoring Stack (prometheus section)" *)
Desc08 ==
    <<80, 114, 111, 106, 101, 99, 116, 32, 67, 32, 45, 32, 67, 111, 109, 112, 108, 101, 116,
       101, 32, 77, 111, 110, 105, 116, 111, 114, 105, 110, 103, 32, 83, 116, 97, 99, 107, 32,
       40, 112, 114, 111, 109, 101, 116, 104, 101, 117, 115, 32, 115, 101, 99, 116, 105, 111,
       110, 41>>

(* "Project C - Complete Monitoring Stack (gpu_metrics.py section)" *)
Desc09 ==
    <<80, 114, 111, 106, 101, 99, 116, 32, 67, 32, 45, 32, 67, 111, 109, 112, 108, 101, 116,
       101, 32, 77, 111, 110, 105, 116, 111, 114, 105, 110, 103, 32, 83, 116, 97, 99, 107, 32,
       40, 103, 112, 117, 95, 109, 101, 116, 114, 105, 99, 115, 46, 112, 121, 32, 115, 101, 99,
       116, 105, 111, 110, 41>>

(* "Project D - Complete AI Inference Platform" *)
Desc10 ==
    <<80, 114, 111, 106, 101, 99, 116, 32, 68, 32, 45, 32, 67, 111, 109, 112, 108, 101, 116,
       101, 32, 65, 73, 32, 73, 110, 102, 101, 114, 101, 110, 99, 101, 32, 80, 108, 97, 116,
       102, 111, 114, 109>>

(* "Project D - Complete AI Inference Platform (Dockerfile section)" *)
Desc11 ==
    <<80, 114, 111, 106, 101, 99, 116, 32, 68, 32, 45, 32, 67, 111, 109, 112, 108, 101, 116,
       101, 32, 65, 73, 32, 73, 110, 102, 101, 114, 101, 110, 99, 101, 32, 80, 108, 97, 116,
       102, 111, 114, 109, 32, 40, 68, 111, 99, 107, 101, 114, 102, 105, 108, 101, 32, 115,
       101, 99, 116, 105, 111, 110, 41>>

(* "Project D - Complete AI Inference Platform (deployment.yaml section)" *)
Desc12 ==
    <<80, 114, 111, 106, 101, 99, 116, 32, 68, 32, 45, 32, 67, 111, 109, 112, 108, 101, 116,
       101, 32, 65, 73, 32, 73, 110, 102, 101, 114, 101, 110, 99, 101, 32, 80, 108, 97, 116,
       102, 111, 114, 109, 32, 40, 100, 101, 112, 108, 111, 121, 109, 101, 110, 116, 46, 121,
       97, 109, 108, 32, 115, 101, 99, 116, 105, 111, 110, 41>>

(* "Complete CI/CD Pipeline and GitOps Configuration" *)
Desc13 ==
    <<67, 111, 109, 112, 108, 101, 116, 101, 32, 67, 73, 47, 67, 68, 32, 80, 105, 112, 101,
       108, 105, 110, 101, 32, 97, 110, 100, 32, 71, 105, 116, 79, 112, 115, 32, 67, 111, 110,
       102, 105, 103, 117, 114, 97, 116, 105, 111, 110>>

(* "Automated Deployment Scripts and Documentation (quick-start.sh section)" *)
Desc14 ==
    <<65, 117, 116, 111, 109, 97, 116, 101, 100, 32, 68, 101, 112, 108, 111, 121, 109, 101,
       110, 116, 32, 83, 99, 114, 105, 112, 116, 115, 32, 97, 110, 100, 32, 68, 111, 99, 117,
       109, 101, 110, 116, 97, 116, 105, 111, 110, 32, 40, 113, 117, 105, 99, 107, 45, 115,
       116, 97, 114, 116, 46, 115, 104, 32, 115, 101, 99, 116, 105, 111, 110, 41>>

(* "Automated Deployment Scripts and Documentation (setup-local-dev.sh section)" *)
Desc15 ==
    <<65, 117, 116, 111, 109, 97, 116, 101, 100, 32, 68, 101, 112, 108, 111, 121, 109, 101,
       110, 116, 32, 83, 99, 114, 105, 112, 116, 115, 32, 97, 110, 100, 32, 68, 111, 99, 117,
       109, 101, 110, 116, 97, 116, 105, 111, 110, 32, 40, 115, 101, 116, 117, 112, 45, 108,
       111, 99, 97, 108, 45, 100, 101, 118, 46, 115, 104, 32, 115, 101, 99, 116, 105, 111, 110,
       41>>

(* placeholders: path -> description, in table order. *)
placeholders ==
    << [path |-> <<"terraform", "aws", "main.tf">>, description |-> Desc01],
       [path |-> <<"terraform", "aws", "variables.tf">>, description |-> Desc02],
       [path |-> <<"terraform", "gcp", "main.tf">>, description |-> Desc03],
       [path |-> <<"terraform", "gcp", "variables.tf">>, description |-> Desc04],
       [path |-> <<"training", "src", "train_distributed.py">>, description |-> Desc05],
       [path |-> <<"training", "docker", "Dockerfile">>, description |-> Desc06],
       [path |-> <<"kubernetes", "training-job.yaml">>, description |-> Desc07],
       [path |-> <<"monitoring", "prometheus", "values.yaml">>, description |-> Desc08],
       [path |-> <<"monitoring", "gpu-exporter", "gpu_metrics.py">>, description |-> Desc09],
       [path |-> <<"inference", "app", "main.py">>, description |-> Desc10],
       [path |-> <<"inference", "Dockerfile">>, description |-> Desc11],
       [path |-> <<"kubernetes", "inference-deployment.yaml">>, description |-> Desc12],
       [path |-> <<".github", "workflows", "ci-cd-pipeline.yaml">>, description |-> Desc13],
       [path |-> <<"scripts", "quick-start.sh">>, description |-> Desc14],
       [path |-> <<"scripts", "setup-local-dev.sh">>, description |-> Desc15] >>

(* The fixed text of the f-string of create_placeholder_note, cut at the three
   {description} substitutions. *)
(* "#" *)
NoteTitlePrefix ==
    <<35, 32>>

(* "\n\n## \xe2\u0161\xa0\xef\xb8 IMPORTANT: Copy Content from Artifacts\n\nThis file
   needs content from the Claude artifacts. Please copy the corresponding
   content:\n\n1. Scroll up in your Claude conversation\n2. Find the artifact titled: "" *)
NoteInstructions ==
    <<10, 10, 35, 35, 32, 226, 353, 160, 239, 184, 32, 73, 77, 80, 79, 82, 84, 65, 78, 84, 58,
       32, 67, 111, 112, 121, 32, 67, 111, 110, 116, 101, 110, 116, 32, 102, 114, 111, 109, 32,
       65, 114, 116, 105, 102, 97, 99, 116, 115, 10, 10, 84, 104, 105, 115, 32, 102, 105, 108,
       101, 32, 110, 101, 101, 100, 115, 32, 99, 111, 110, 116, 101, 110, 116, 32, 102, 114,
       111, 109, 32, 116, 104, 101, 32, 67, 108, 97, 117, 100, 101, 32, 97, 114, 116, 105, 102,
       97, 99, 116, 115, 46, 32, 80, 108, 101, 97, 115, 101, 32, 99, 111, 112, 121, 32, 116,
       104, 101, 32, 99, 111, 114, 114, 101, 115, 112, 111, 110, 100, 105, 110, 103, 32, 99,
       111, 110, 116, 101, 110, 116, 58, 10, 10, 49, 46, 32, 83, 99, 114, 111, 108, 108, 32,
       117, 112, 32, 105, 110, 32, 121, 111, 117, 114, 32, 67, 108, 97, 117, 100, 101, 32, 99,
       111, 110, 118, 101, 114, 115, 97, 116, 105, 111, 110, 10, 50, 46, 32, 70, 105, 110, 100,
       32, 116, 104, 101, 32, 97, 114, 116, 105, 102, 97, 99, 116, 32, 116, 105, 116, 108, 101,
       100, 58, 32, 34>>

(* ""\n3. Copy the entire content\n4. Paste it into this file\n\n## File Purpose\n\n" *)
NotePurposeHeading ==
    <<34, 10, 51, 46, 32, 67, 111, 112, 121, 32, 116, 104, 101, 32, 101, 110, 116, 105, 114,
       101, 32, 99, 111, 110, 116, 101, 110, 116, 10, 52, 46, 32, 80, 97, 115, 116, 101, 32,
       105, 116, 32, 105, 110, 116, 111, 32, 116, 104, 105, 115, 32, 102, 105, 108, 101, 10,
       10, 35, 35, 32, 70, 105, 108, 101, 32, 80, 117, 114, 112, 111, 115, 101, 10, 10>>

(* "\n\n## What to do after copying:\n\n1. Save this file\n2. Continue with the next
   file in docs/SETUP_INSTRUCTIONS.md\n3. Once all files are copied, run:
   ./scripts/quick-start.sh\n\n---\nGenerated by AI Infrastructure Installer\n" *)
NoteFooter ==
    <<10, 10, 35, 35, 32, 87, 104, 97, 116, 32, 116, 111, 32, 100, 111, 32, 97, 102, 116, 101,
       114, 32, 99, 111, 112, 121, 105, 110, 103, 58, 10, 10, 49, 46, 32, 83, 97, 118, 101, 32,
       116, 104, 105, 115, 32, 102, 105, 108, 101, 10, 50, 46, 32, 67, 111, 110, 116, 105, 110,
       117, 101, 32, 119, 105, 116, 104, 32, 116, 104, 101, 32, 110, 101, 120, 116, 32, 102,
       105, 108, 101, 32, 105, 110, 32, 100, 111, 99, 115, 47, 83, 69, 84, 85, 80, 95, 73, 78,
       83, 84, 82, 85, 67, 84, 73, 79, 78, 83, 46, 109, 100, 10, 51, 46, 32, 79, 110, 99, 101,
       32, 97, 108, 108, 32, 102, 105, 108, 101, 115, 32, 97, 114, 101, 32, 99, 111, 112, 105,
       101, 100, 44, 32, 114, 117, 110, 58, 32, 46, 47, 115, 99, 114, 105, 112, 116, 115, 47,
       113, 117, 105, 99, 107, 45, 115, 116, 97, 114, 116, 46, 115, 104, 10, 10, 45, 45, 45,
       10, 71, 101, 110, 101, 114, 97, 116, 101, 100, 32, 98, 121, 32, 65, 73, 32, 73, 110,
       102, 114, 97, 115, 116, 114, 117, 99, 116, 117, 114, 101, 32, 73, 110, 115, 116, 97,
       108, 108, 101, 114, 10>>

(* "# Setup Instructions\n" *)
setup_instructions ==
    <<35, 32, 83, 101, 116, 117, 112, 32, 73, 110, 115, 116, 114, 117, 99, 116, 105, 111, 110,
       115, 10>>

(* "# Quick Reference\n" *)
quick_ref ==
    <<35, 32, 81, 117, 105, 99, 107, 32, 82, 101, 102, 101, 114, 101, 110, 99, 101, 10>>

(***************************************************************************)
(* Text: str.lower, the encoding of write_text, substring search           *)
(***************************************************************************)
\* str.lower() on one code point (the responses of the model are ASCII)
LowerChar(c) == IF c >= 65 /\ c <= 90 THEN c + 32 ELSE c

\* response.lower()
Lower(s) == [k \in 1..Len(s) |-> LowerChar(s[k])]

\* the bytes write_text produces for one code point (UTF-8)
EncodeChar(c) ==
    IF c < 128 THEN <<c>>
    ELSE IF c < 2048 THEN <<192 + (c \div 64), 128 + (c % 64)>>
    ELSE IF c < 65536 THEN
        <<224 + (c \div 4096), 128 + ((c \div 64) % 64), 128 + (c % 64)>>
    ELSE <<240 + (c \div 262144), 128 + ((c \div 4096) % 64),
           128 + ((c \div 64) % 64), 128 + (c % 64)>>

RECURSIVE EncodeRange(_, _, _)
EncodeRange(s, lo, hi) ==
    IF lo > hi THEN <<>>
    ELSE IF lo = hi THEN EncodeChar(s[lo])
    ELSE LET mid == (lo + hi) \div 2
         IN  EncodeRange(s, lo, mid) \o EncodeRange(s, mid + 1, hi)

\* the bytes write_text(content) stores for a text
Encode(s) == EncodeRange(s, 1, Len(s))

\* a byte that starts a code point (not a continuation byte 10xxxxxx)
IsLead(b) == b < 128 \/ b >= 192

\* the code point whose encoding starts at byte k
CodePointAt(b, k) ==
    IF b[k] < 128 THEN b[k]
    ELSE IF b[k] < 224 THEN (b[k] - 192) * 64 + (b[k + 1] - 128)
    ELSE IF b[k] < 240 THEN
        (b[k] - 224) * 4096 + (b[k + 1] - 128) * 64 + (b[k + 2] - 128)
    ELSE (b[k] - 240) * 262144 + (b[k + 1] - 128) * 4096
         + (b[k + 2] - 128) * 64 + (b[k + 3] - 128)

\* the text read back from the bytes of a file
Decode(b) ==
    LET idx   == [k \in 1..Len(b) |-> k]
        leads == SelectSeq(idx, LAMBDA k : IsLead(b[k]))
    IN  [n \in 1..Len(leads) |-> CodePointAt(b, leads[n])]

\* the positions at which needle occurs in hay
Occurrences(needle, hay) ==
    {k \in 1..(Len(hay) - Len(needle) + 1) :
        \A j \in 1..Len(needle) : hay[k + j - 1] = needle[j]}

Contains(needle, hay) == Occurrences(needle, hay) # {}

CountOcc(needle, hay) == Cardinality(Occurrences(needle, hay))

(***************************************************************************)
(* Paths and the filesystem below the working directory                    *)
(***************************************************************************)
\* Path(p).parent; the parent of the working directory is itself
parent(p) == IF p = <<>> THEN <<>> ELSE SubSeq(p, 1, Len(p) - 1)

Prefixes(p) == {SubSeq(p, 1, k) : k \in 0..Len(p)}

IsProperPrefix(p, q) == Len(p) < Len(q) /\ SubSeq(q, 1, Len(p)) = p

SetupPath == <<"docs", "SETUP_INSTRUCTIONS.md">>

\* the quick reference written to the path of the setup instructions
QuickRefPathSameAsSetup == SetupPath

QuickRefPath == <<"docs", "QUICK_REFERENCE.md">>

GitPath == <<".git">>

\* every path the program touches, with its ancestors
AllPaths ==
    UNION {Prefixes(directories[k]) : k \in 1..Len(directories)}
    \cup UNION {Prefixes(FILES[k].path) : k \in 1..Len(FILES)}
    \cup UNION {Prefixes(placeholders[k].path) : k \in 1..Len(placeholders)}
    \cup Prefixes(SetupPath) \cup Prefixes(QuickRefPath) \cup {GitPath}

None == [kind |-> "none", data |-> <<>>]

Dir == [kind |-> "dir", data |-> <<>>]

File(bytes) == [kind |-> "file", data |-> bytes]

\* Path(p).exists()
exists(f, p) == f[p].kind # "none"

RECURSIVE mkdir(_, _, _)

\* mkdir as it would be with exist_ok=False: an existing directory is an error
mkdir_exist_not_ok(f, p, denied) ==
    IF f[p].kind # "none" THEN [fs |-> f, err |-> "FileExistsError"]
    ELSE IF f[parent(p)].kind = "none" THEN
        LET r == mkdir(f, parent(p), denied)
        IN  IF r.err # "none" THEN r ELSE mkdir(r.fs, p, denied)
    ELSE IF f[parent(p)].kind = "file" THEN [fs |-> f, err |-> "NotADirectoryError"]
    ELSE IF p \in denied THEN [fs |-> f, err |-> "PermissionError"]
    ELSE [fs |-> [f EXCEPT ![p] = Dir], err |-> "none"]

\* Path.mkdir(parents=True, exist_ok=True): os.mkdir(p); on FileNotFoundError
\* make the parent and retry; any other OSError is swallowed only when p is a
\* directory. denied is the set of paths the system refuses to create.
mkdir(f, p, denied) ==
    IF f[p].kind = "dir" THEN [fs |-> f, err |-> "none"]
    ELSE IF f[p].kind = "file" THEN [fs |-> f, err |-> "FileExistsError"]
    ELSE IF f[parent(p)].kind = "none" THEN
        LET r == mkdir(f, parent(p), denied)
        IN  IF r.err # "none" THEN r ELSE mkdir(r.fs, p, denied)
    ELSE IF f[parent(p)].kind = "file" THEN [fs |-> f, err |-> "NotADirectoryError"]
    ELSE IF p \in denied THEN [fs |-> f, err |-> "PermissionError"]
    ELSE [fs |-> [f EXCEPT ![p] = Dir], err |-> "none"]

\* open(path, "a") instead: the previous bytes stay
open_a(old) == old

\* what open(path, "w") leaves of the previous bytes of the file
open_w(old) == <<>>

\* Path.write_text(content): open for writing (truncating), write the encoded
\* text. fault is the point at which the system fails the call, if any.
write_text(f, p, content, fault) ==
    IF f[p].kind = "dir" THEN [fs |-> f, err |-> "IsADirectoryError"]
    ELSE IF f[parent(p)].kind = "none" THEN [fs |-> f, err |-> "FileNotFoundError"]
    ELSE IF f[parent(p)].kind = "file" THEN [fs |-> f, err |-> "NotADirectoryError"]
    ELSE IF fault = "open" THEN [fs |-> f, err |-> "PermissionError"]
    ELSE IF fault = "write" THEN
        [fs |-> [f EXCEPT ![p] = File(open_w(f[p].data))], err |-> "OSError"]
    ELSE [fs |-> [f EXCEPT ![p] = File(open_w(f[p].data) \o Encode(content))],
          err |-> "none"]

\* create_file(filepath, content)
create_file(f, filepath, content, denied, fault) ==
    LET r == mkdir(f, parent(filepath), denied)
    IN  IF r.err # "none" THEN r ELSE write_text(r.fs, filepath, content, fault)

\* the note without its description
note_content_no_description(description) ==
    NoteTitlePrefix \o NoteInstructions \o NotePurposeHeading \o NoteFooter

\* the note with the description as title and as body paragraph only
note_content_twice(description) ==
    NoteTitlePrefix \o description \o NoteInstructions
    \o NotePurposeHeading \o description \o NoteFooter

\* the document create_placeholder_note builds for a description
note_content(description) ==
    NoteTitlePrefix \o description \o NoteInstructions \o description
    \o NotePurposeHeading \o description \o NoteFooter

\* the failures the system may inject into one call on path p
DenyChoices(p) == {{}} \cup {{q} : q \in Prefixes(p) \ {<<>>}}

Faults == {"none", "open", "write"}

(***************************************************************************)
(* main()                                                                  *)
(***************************************************************************)
VARIABLES
    fs,          \* the entries below the working directory: path -> entry
    pc,          \* position in main(): [phase, i], i the loop index (0-based)
    status,      \* "running", "aborted" (sys.exit at the prompt), "failed", "done"
    exitStatus,  \* exit status of the process, -1 while it runs
    response,    \* the last line read by input()
    error,       \* the exception that ended the run, "none" otherwise
    log,         \* the calls of this run that completed, in order
    prompts,     \* how often this run has asked for confirmation
    fs0,         \* the filesystem when this run started
    runs,        \* number of runs started
    description, \* create_placeholder_note: its argument in the last call
    content      \* create_placeholder_note: the document it built

vars ==
    <<fs, pc, status, exitStatus, response, error, log, prompts, fs0, runs,
      description, content>>

\* main() with the directory structure created before the confirmation gate
MainStepsDirsBeforeCheck ==
    <<"dirs", "check", "files", "placeholders", "setup", "quickref", "summary">>

\* main() with the placeholder loop before the loop over FILES
MainStepsPlaceholdersFirst ==
    <<"check", "dirs", "placeholders", "files", "setup", "quickref", "summary">>

\* the statements of main(), in program order
MainSteps ==
    <<"check", "dirs", "files", "placeholders", "setup", "quickref", "summary">>

\* "y", "Y", "n", "N", "yes", "" and " y"
Responses == {<<121>>, <<89>>, <<110>>, <<78>>, <<121, 101, 115>>, <<>>, <<32, 121>>}

\* a test of the first character only: response.lower()[:1] != 'y'
declined_by_first_char(r) == r = <<>> \/ LowerChar(r[1]) # 121

\* response.lower() != 'y'
declined(r) == Lower(r) # <<121>>

\* the exit status of the interpreter after an uncaught exception
UncaughtExitCode == 1

\* the prompt exiting like a failure instead
DeclineExitCodeAsFailure == UncaughtExitCode

\* sys.exit(0) at the prompt
DeclineExitCode == 0

\* a loop that stops two entries early
DirectoryLoopBoundShort == Len(directories) - 2

\* the number of iterations of the loop over directories
DirectoryLoopBound == Len(directories)

Step == IF pc.phase <= Len(MainSteps) THEN MainSteps[pc.phase] ELSE "end"

LoopLength(step) ==
    CASE step = "dirs" -> DirectoryLoopBound
      [] step = "files" -> Len(FILES)
      [] step = "placeholders" -> Len(placeholders)
      [] OTHER -> 1

NextPc ==
    IF pc.i + 1 < LoopLength(Step) THEN [pc EXCEPT !.i = @ + 1]
    ELSE [phase |-> pc.phase + 1, i |-> 0]

At(step) == status = "running" /\ Step = step

\* a call returned: main() goes on with the next statement
Completed(op, p) ==
    /\ log' = Append(log, [op |-> op, path |-> p])
    /\ pc' = NextPc
    /\ UNCHANGED <<status, exitStatus, error>>

\* a call raised and main() swallowed the exception
RaisedAndContinued(err) ==
    /\ error' = err
    /\ pc' = NextPc
    /\ UNCHANGED <<status, exitStatus, log>>

\* a call raised: nothing in main() catches it, the interpreter exits with 1
Raised(err) ==
    /\ error' = err
    /\ status' = "failed"
    /\ exitStatus' = UncaughtExitCode
    /\ UNCHANGED <<pc, log>>

\* the outcome of a filesystem call r = [fs, err]
Outcome(r, op, p) ==
    /\ fs' = r.fs
    /\ IF r.err = "none" THEN Completed(op, p) ELSE Raised(r.err)
    /\ UNCHANGED <<response, prompts, fs0, runs>>

\* the locals of create_placeholder_note keep their values
NoNote == UNCHANGED <<description, content>>

\* if not Path(".git").exists(): ... input("Continue anyway? (y/n): ")
CheckRepository ==
    /\ At("check") /\ pc.i = 0
    /\ IF exists(fs, GitPath)
       THEN pc' = [phase |-> pc.phase + 1, i |-> 0] /\ prompts' = prompts
       ELSE pc' = [pc EXCEPT !.i = 1] /\ prompts' = prompts + 1
    /\ UNCHANGED <<fs, status, exitStatus, response, error, log, fs0, runs>>
    /\ NoNote

\* the answer arrives; if response.lower() != 'y': sys.exit(0)
ConfirmPrompt ==
    /\ At("check") /\ pc.i = 1
    /\ \E r \in Responses :
        /\ response' = r
        /\ IF declined(r)
           THEN /\ status' = "aborted"
                /\ exitStatus' = DeclineExitCode
                /\ pc' = pc
           ELSE /\ pc' = [phase |-> pc.phase + 1, i |-> 0]
                /\ UNCHANGED <<status, exitStatus>>
    /\ UNCHANGED <<fs, error, log, prompts, fs0, runs>>
    /\ NoNote

\* input() at end of input (the script piped to the interpreter): EOFError
PromptEOF ==
    /\ At("check") /\ pc.i = 1
    /\ Raised("EOFError")
    /\ UNCHANGED <<fs, response, prompts, fs0, runs>>
    /\ NoNote

\* one iteration of the loop of create_directory_structure
CreateDirectory ==
    /\ At("dirs")
    /\ LET p == directories[pc.i + 1]
       IN  \E denied \in DenyChoices(p) :
               Outcome(mkdir(fs, p, denied), "mkdir", p)
    /\ NoNote

\* one iteration of: for filepath, content in FILES.items()
CreateLiteralFile ==
    /\ At("files")
    /\ LET e == FILES[pc.i + 1]
       IN  \E denied \in DenyChoices(parent(e.path)), fault \in Faults :
               Outcome(create_file(fs, e.path, e.content, denied, fault),
                       "create_file", e.path)
    /\ NoNote

\* one iteration of: for filepath, description in placeholders.items()
CreatePlaceholderNote ==
    /\ At("placeholders")
    /\ LET e == placeholders[pc.i + 1]
       IN  /\ description' = e.description
           /\ content' = note_content(e.description)
           /\ \E denied \in DenyChoices(parent(e.path)), fault \in Faults :
                  Outcome(create_file(fs, e.path, content', denied, fault),
                          "create_file", e.path)

\* create_file("docs/SETUP_INSTRUCTIONS.md", setup_instructions)
CreateSetupInstructions ==
    /\ At("setup")
    /\ \E denied \in DenyChoices(parent(SetupPath)), fault \in Faults :
           Outcome(create_file(fs, SetupPath, setup_instructions, denied, fault),
                   "create_file", SetupPath)
    /\ NoNote

\* create_file("docs/QUICK_REFERENCE.md", quick_ref)
CreateQuickReference ==
    /\ At("quickref")
    /\ \E denied \in DenyChoices(parent(QuickRefPath)), fault \in Faults :
           Outcome(create_file(fs, QuickRefPath, quick_ref, denied, fault),
                   "create_file", QuickRefPath)
    /\ NoNote

\* print_header("Installation Complete!") and the next steps; main() returns
PrintSummary ==
    /\ At("summary")
    /\ log' = Append(log, [op |-> "print_summary", path |-> <<>>])
    /\ pc' = NextPc
    /\ status' = "done"
    /\ exitStatus' = 0
    /\ UNCHANGED <<fs, response, error, prompts, fs0, runs>>
    /\ NoNote

\* the installer is run again in the directory a completed run left
RunAgain ==
    /\ status = "done"
    /\ runs < MaxRuns
    /\ runs' = runs + 1
    /\ fs0' = fs
    /\ pc' = [phase |-> 1, i |-> 0]
    /\ status' = "running"
    /\ exitStatus' = -1
    /\ response' = <<>>
    /\ error' = "none"
    /\ log' = <<>>
    /\ prompts' = 0
    /\ description' = <<>>
    /\ content' = <<>>
    /\ UNCHANGED fs

(***************************************************************************)
(* The working directory before the first run                              *)
(***************************************************************************)
\* "stale\n": the content of a file that was there before
Stale == <<115, 116, 97, 108, 101, 10>>

\* the paths at which the model lets an entry be present before the first run:
\* literal files, listed directories and their ancestors, placeholder files, the
\* two documents written last
PreexistingCandidates ==
    {<<"README.md">>, <<"docs">>, <<"docs", "ARCHITECTURE.md">>, SetupPath,
     QuickRefPath, <<"terraform">>, <<"terraform", "aws">>,
     <<"terraform", "aws", "main.tf">>, <<"kubernetes">>,
     <<"kubernetes", "training-job.yaml">>, <<"tests">>,
     <<"scripts", "quick-start.sh">>}

\* a tree: S the entries present (with their ancestors), kindOf their kinds
InitialFs(S, kindOf, git) ==
    [p \in AllPaths |->
        IF p = <<>> THEN Dir
        ELSE IF p = GitPath THEN
            (IF git = "dir" THEN Dir ELSE IF git = "file" THEN File(Stale) ELSE None)
        ELSE IF \E s \in S : IsProperPrefix(p, s) THEN Dir
        ELSE IF p \in S THEN (IF kindOf[p] = "dir" THEN Dir ELSE File(Stale))
        ELSE None]

RECURSIVE SubsetsUpTo(_, _)
SubsetsUpTo(C, n) ==
    IF n = 0 THEN {{}}
    ELSE LET smaller == SubsetsUpTo(C, n - 1)
         IN  smaller \cup {T \cup {x} : T \in smaller, x \in C}

Init ==
    /\ \E S \in SubsetsUpTo(PreexistingCandidates, MaxPreexisting) :
        /\ \E kindOf \in [S -> {"dir", "file"}], git \in {"none", "dir", "file"} :
               fs = InitialFs(S, kindOf, git)
    /\ fs0 = fs
    /\ pc = [phase |-> 1, i |-> 0]
    /\ status = "running"
    /\ exitStatus = -1
    /\ response = <<>>
    /\ error = "none"
    /\ log = <<>>
    /\ prompts = 0
    /\ runs = 1
    /\ description = <<>>
    /\ content = <<>>

Next ==
    \/ CheckRepository
    \/ ConfirmPrompt
    \/ PromptEOF
    \/ CreateDirectory
    \/ CreateLiteralFile
    \/ CreatePlaceholderNote
    \/ CreateSetupInstructions
    \/ CreateQuickReference
    \/ PrintSummary
    \/ RunAgain

Spec == Init /\ [][Next]_vars

(***************************************************************************)
(* create_placeholder_note as a function of its description                *)
(***************************************************************************)
\* the longest description drawn besides those of the placeholders table
MaxDescriptionLen == 5

\* "Q" and "Z": two characters that the fixed text of the note does not contain
FreshChars == {81, 90}

RECURSIVE TextsUpTo(_)
TextsUpTo(n) ==
    IF n = 0 THEN {<<>>}
    ELSE LET shorter == TextsUpTo(n - 1)
         IN  shorter \cup {Append(t, c) : t \in shorter, c \in FreshChars}

\* the descriptions of the placeholders table, and short non-empty ones
NoteDescriptions ==
    {placeholders[k].description : k \in 1..Len(placeholders)}
    \cup (TextsUpTo(MaxDescriptionLen) \ {<<>>})

NoteInit ==
    /\ description \in NoteDescriptions
    /\ content = <<>>
    /\ fs = InitialFs({}, <<>>, "dir")
    /\ fs0 = fs
    /\ pc = [phase |-> 1, i |-> 0]
    /\ status = "running"
    /\ exitStatus = -1
    /\ response = <<>>
    /\ error = "none"
    /\ log = <<>>
    /\ prompts = 0
    /\ runs = 1

\* content = f"""# {description} ... """
SynthesizeNote ==
    /\ content = <<>>
    /\ content' = note_content(description)
    /\ UNCHANGED <<fs, pc, status, exitStatus, response, error, log, prompts, fs0,
                   runs, description>>

NoteNext == SynthesizeNote

NoteSpec == NoteInit /\ [][NoteNext]_vars

(***************************************************************************)
(* Properties                                                              *)
(***************************************************************************)
Call(op, p) == [op |-> op, path |-> p]

\* the calls of a run that completes, in the order the specification prescribes:
\* the directory list, the literal files, the placeholders, the two documents,
\* the summary
ExpectedCalls ==
    [k \in 1..Len(directories) |-> Call("mkdir", directories[k])]
    \o [k \in 1..Len(FILES) |-> Call("create_file", FILES[k].path)]
    \o [k \in 1..Len(placeholders) |-> Call("create_file", placeholders[k].path)]
    \o <<Call("create_file", SetupPath), Call("create_file", QuickRefPath),
         Call("print_summary", <<>>)>>

\* Path(p).read_text() of a regular file
read_text(f, p) == Decode(f[p].data)

IsFile(f, p) == f[p].kind = "file"

IsDir(f, p) == f[p].kind = "dir"

\* C1: when the repository marker is absent and the user declines the prompt,
\* the run ends and the working directory holds exactly the directories, files
\* and contents it held when the run started; no call that writes was made.
C1_DeclineWritesNothing ==
    status = "aborted" => (fs = fs0 /\ log = <<>>)

C1_Witness ==
    /\ status = "aborted"
    /\ ~exists(fs0, GitPath)
    /\ prompts = 1
    /\ response = <<110>>

\* C2: after a run that completes, every path of FILES is a regular file whose
\* text is exactly the content of the table, also when a file with another
\* content was there before the run.
C2_LiteralFilesExact ==
    status = "done" =>
        \A k \in 1..Len(FILES) :
            /\ IsFile(fs, FILES[k].path)
            /\ read_text(fs, FILES[k].path) = FILES[k].content

C2_Witness ==
    /\ status = "done"
    /\ runs = 1
    /\ fs0[<<"README.md">>] = File(Stale)
    /\ read_text(fs, <<"README.md">>) = README_md

\* C3: after a run that completes, every path of the directory list and every
\* ancestor of such a path is a directory.
C3_DirectoriesExist ==
    status = "done" =>
        \A k \in 1..Len(directories) :
            \A q \in Prefixes(directories[k]) : IsDir(fs, q)

C3_Witness ==
    /\ status = "done"
    /\ runs = 1
    /\ ~exists(fs0, <<"tests">>)
    /\ ~exists(fs0, <<"terraform">>)
    /\ IsDir(fs, <<"tests">>)
    /\ IsDir(fs, <<"terraform", "aws">>)

\* C4: after a run that completes, every path of the placeholders table is a
\* regular file whose text contains the description of the table verbatim.
C4_PlaceholdersContainDescription ==
    status = "done" =>
        \A k \in 1..Len(placeholders) :
            /\ IsFile(fs, placeholders[k].path)
            /\ Contains(placeholders[k].description,
                        read_text(fs, placeholders[k].path))

C4_Witness ==
    /\ status = "done"
    /\ runs = 1
    /\ fs0[<<"terraform", "aws", "main.tf">>] = File(Stale)
    /\ Contains(Desc01, read_text(fs, <<"terraform", "aws", "main.tf">>))

\* C5: a second run that completes leaves exactly the directories and file
\* contents the first run left: nothing accumulates, nothing is duplicated.
C5_Idempotent ==
    (status = "done" /\ runs >= 2) => fs = fs0

C5_Witness ==
    /\ status = "done"
    /\ runs = 2
    /\ Len(log) = Len(ExpectedCalls)
    /\ IsFile(fs, <<"README.md">>)

\* C6 as stated: a run the user declined exits with a non-zero status.
C6_DeclineExitsNonZero ==
    status = "aborted" => exitStatus # 0

\* C6, amended: a run the user declined (marker absent) exits early with status
\* 0, before any call that writes; every other run that does not fail makes all
\* its calls and exits with status 0; a process still running has no status.
C6_ExitStatus ==
    /\ status = "aborted" =>
        /\ exitStatus = 0
        /\ ~exists(fs, GitPath)
        /\ declined(response)
        /\ log = <<>>
    /\ status = "done" => (exitStatus = 0 /\ log = ExpectedCalls)
    /\ status = "failed" => exitStatus = 1
    /\ status = "running" => exitStatus = -1

C6_Witness ==
    /\ status = "aborted"
    /\ exitStatus = 0
    /\ prompts = 1
    /\ response = <<121, 101, 115>>

\* C7: the calls of a run occur in the prescribed order: the directories of the
\* list, then the FILES entries in table order, then the placeholders in table
\* order, then docs/SETUP_INSTRUCTIONS.md, then docs/QUICK_REFERENCE.md, then
\* the summary; when the first file is written every listed directory exists.
C7_StrictOrder ==
    /\ Len(log) <= Len(ExpectedCalls)
    /\ \A k \in 1..Len(log) : log[k] = ExpectedCalls[k]
    /\ (\E k \in 1..Len(log) : log[k].op = "create_file") =>
           \A d \in 1..Len(directories) : IsDir(fs, directories[d])

C7_Witness ==
    /\ status = "done"
    /\ log = ExpectedCalls
    /\ log[Len(directories) + 1] = Call("create_file", <<"README.md">>)

\* C8: once a call has failed the run is over: no later step is taken (no
\* further creation or write, no retry); the failing step itself removes
\* nothing and leaves every directory and every file that the run had
\* created before it as it was.
C8_FailureStops ==
    [][/\ error # "none" => FALSE
       /\ (error = "none" /\ error' # "none") =>
            /\ status' = "failed"
            /\ log' = log
            /\ pc' = pc
            /\ \A p \in AllPaths :
                /\ exists(fs, p) => exists(fs', p)
                /\ IsDir(fs, p) => fs'[p] = fs[p]
            /\ \A k \in 1..Len(log) :
                \A q \in Prefixes(log[k].path) : fs'[q] = fs[q]]_vars

C8_Witness ==
    /\ status = "failed"
    /\ error = "OSError"
    /\ Len(log) > Len(directories) + Len(FILES)
    /\ IsFile(fs, <<"README.md">>)
    /\ IsDir(fs, <<"docs">>)

\* C9 as stated: create_directory_structure fails only on a genuine filesystem
\* error, never because an entry is already present at a listed path or at an
\* ancestor of one.
C9_NeverFailsOnExisting ==
    (status = "failed" /\ Step = "dirs") => error = "PermissionError"

\* C9, amended: a listed path that is already a directory is a no-op and the
\* run continues; no existing directory is changed; the call fails with
\* FileExistsError or NotADirectoryError exactly when the listed path or one of
\* its ancestors is present as a regular file, and otherwise only when the
\* system refuses the creation.
C9_ExistingDirectoryIsNoOp ==
    [][At("dirs") =>
        LET p == directories[pc.i + 1]
        IN  /\ IsDir(fs, p) => (fs' = fs /\ error' = "none" /\ pc' = NextPc)
            /\ \A q \in AllPaths : IsDir(fs, q) => fs'[q] = fs[q]
            /\ (error' \in {"FileExistsError", "NotADirectoryError"}) <=>
                   (\E q \in Prefixes(p) : IsFile(fs, q))
            /\ error' \in {"none", "PermissionError", "FileExistsError",
                            "NotADirectoryError"}]_vars

C9_Witness ==
    /\ status = "failed"
    /\ Step = "dirs"
    /\ error = "FileExistsError"
    /\ IsFile(fs, <<"docs">>)
    /\ IsDir(fs, <<"tests">>)

\* C10 as stated: the note embeds its description twice, as the title and as a
\* body paragraph, and nowhere else.
C10_DescriptionTwice ==
    content # <<>> => CountOcc(description, content) = 2

TitlePos == Len(NoteTitlePrefix) + 1

QuotedPos == TitlePos + Len(description) + Len(NoteInstructions)

BodyPos == QuotedPos + Len(description) + Len(NotePurposeHeading)

\* C10, amended: for every description of the placeholders table, and every
\* non-empty description made of characters the fixed text does not contain,
\* the note is the fixed template with the description embedded three times:
\* as the title (the first line is "# " and the description), as the quoted
\* artifact title of step 2, and as the paragraph under "File Purpose"; it
\* occurs nowhere else.
C10_DescriptionThrice ==
    content # <<>> =>
        /\ Occurrences(description, content) = {TitlePos, QuotedPos, BodyPos}
        /\ CountOcc(description, content) = 3
        /\ SubSeq(content, 1, Len(description) + 3)
               = <<35, 32>> \o description \o <<10>>
        /\ content[QuotedPos - 1] = 34
        /\ content[QuotedPos + Len(description)] = 34
        /\ SubSeq(content, BodyPos - 2, BodyPos + Len(description) + 1)
               = <<10, 10>> \o description \o <<10, 10>>

C10_Witness ==
    /\ description = Desc05
    /\ content # <<>>
    /\ CountOcc(description, content) = 3

\* the paths of the create_file calls of the log, in order
WrittenPaths ==
    LET writes == SelectSeq(log, LAMBDA c : c.op = "create_file")
    IN  [k \in 1..Len(writes) |-> writes[k].path]

KeySet(table) == {table[k].path : k \in 1..Len(table)}

\* C11: in a run each file path is written at most once: no two create_file
\* calls of the run have the same path; the keys of FILES, the keys of
\* placeholders and the paths of the two documents are pairwise disjoint and
\* without repetition.
C11_EachPathWrittenOnce ==
    /\ \A i, j \in 1..Len(WrittenPaths) :
           WrittenPaths[i] = WrittenPaths[j] => i = j
    /\ KeySet(FILES) \cap KeySet(placeholders) = {}
    /\ {SetupPath, QuickRefPath} \cap (KeySet(FILES) \cup KeySet(placeholders)) = {}
    /\ SetupPath # QuickRefPath
    /\ Cardinality(KeySet(FILES)) = Len(FILES)
    /\ Cardinality(KeySet(placeholders)) = Len(placeholders)

C11_Witness ==
    /\ status = "done"
    /\ Len(WrittenPaths) = Len(FILES) + Len(placeholders) + 2
    /\ WrittenPaths[Len(WrittenPaths)] = QuickRefPath
    /\ WrittenPaths[Len(WrittenPaths) - 1] = SetupPath

\* the run is past the confirmation gate
PastGate == log # <<>> \/ (status = "running" /\ Step # "check")

\* C12: the prompt is issued at most once per run and only when .git does not
\* exist; with .git present the run goes on to the writes without a prompt.
\* After a prompt the run goes on exactly when the answer is "y" or "Y"; any
\* other answer ("yes", "", " y", "n", ...) ends the run before a directory or
\* file is created.
C12_ConfirmationGate ==
    /\ prompts <= 1
    /\ prompts = 1 <=> ~exists(fs0, GitPath)
           /\ (pc # [phase |-> 1, i |-> 0] \/ status # "running")
    /\ (PastGate /\ prompts = 1) => response \in {<<121>>, <<89>>}
    /\ status = "aborted" =>
           /\ prompts = 1
           /\ response \notin {<<121>>, <<89>>}
           /\ fs = fs0
           /\ log = <<>>
    /\ (prompts = 1 /\ response \in {<<121>>, <<89>>}) => status # "aborted"

C12_Witness ==
    /\ prompts = 1
    /\ response = <<89>>
    /\ status = "running"
    /\ Step = "files"
    /\ ~exists(fs, GitPath)
    /\ IsDir(fs, <<"docs">>)

=============================================================================
